---- MODULE Spec2Model ----
(***************************************************************************)
(* fish-and-barrel: a browser chat client and the two Next.js route        *)
(* handlers (chat proxy, image proxy) that forward its requests to a       *)
(* generative-AI API with a server-side key.                               *)
(*                                                                         *)
(* The route handlers are stateless per request and the client is coupled  *)
(* to them by HTTP only, so a behaviour follows one program: SpecImage a   *)
(* request to the image route, SpecServer a server with a request to each  *)
(* route in flight, SpecClient a browser session (the chat route answering *)
(* its POSTs through ProxyAnswer), SpecBubble one MessageBubble rendering  *)
(* a message, and Spec either of the image request and the session.        *)
(***************************************************************************)
EXTENDS Integers, Sequences, FiniteSets, TLC

VARIABLES
    apiKey,         \* process.env.GEMINI_API_KEY
    \* ---- image route, src/app/api/image/route.ts POST
    imgPc,          \* "off" | "start" | "fetch" | "wait" | "done"
    imgReq,         \* the request body
    imgI,           \* loop index i
    imgDelay,       \* let delay
    imgFinalStatus, \* finalResponse?.status, 0 while finalResponse is undefined
    imgFinalData,   \* finalData
    imgResp,        \* the NextResponse returned
    imgHist,        \* upstream outcomes of this request, in order
    imgWaits,       \* setTimeout delays awaited by this request, in order
    \* ---- chat route, src/unnamed/part_000 HEAD / POST
    chatPc,         \* "off" | "start" | "fetch" | "done"
    chatMethod,     \* "HEAD" | "POST"
    chatReq,        \* the request body
    chatResp,       \* the NextResponse returned
    chatHist,       \* upstream outcomes of this request, in order
    chatWaits,      \* setTimeout delays awaited by this request, in order
    \* ---- browser client, src/app/page.tsx ChatClient
    clPc,           \* "off" | "init" | "idle" | "fetch" | "wait": where sendMessage is
    chatHistory,    \* useState chatHistory
    loading,        \* useState loading
    apiKeyExists,   \* useState apiKeyExists
    userId,         \* useState userId
    backgroundLoading, \* useState backgroundLoading
    backgroundImage,   \* useState backgroundImage
    sends,          \* sends accepted so far in this session
    clI,            \* sendMessage: loop index i
    clDelay,        \* sendMessage: let delay
    clResult,       \* sendMessage: let result
    clPayload,      \* sendMessage: payload.contents
    clPosts,        \* POSTs to /api/chat issued by the current send
    clWaits,        \* setTimeout delays awaited by the current send, in order
    clSettled,      \* attempts of the current send that have settled
    clAll429,       \* every attempt before the last settled one was answered 429
    clLast,         \* what the last settled attempt received
    clUpCalls,      \* upstream calls the chat route makes for the POSTs of the current send
    bgPc,           \* "idle" | "fetch" | "wait": where generateAndSetBackground is
    bgI,            \* generateAndSetBackground: loop index i
    bgDelay,        \* generateAndSetBackground: let delay
    bgPosts,        \* requests issued by the current background generation
    bgWaits,        \* setTimeout delays awaited by it, in order
    \* ---- one MessageBubble, src/app/page.tsx
    bubblePc,       \* "off" | "props" | "shown"
    bubbleMessage,  \* props.message
    bubbleShown     \* uniqueSources, as rendered

imgVars  == <<imgPc, imgReq, imgI, imgDelay, imgFinalStatus, imgFinalData,
              imgResp, imgHist, imgWaits>>
chatVars == <<chatPc, chatMethod, chatReq, chatResp, chatHist, chatWaits>>
uiVars   == <<chatHistory, loading, apiKeyExists, userId, backgroundLoading,
              backgroundImage, sends>>
sendVars == <<clPc, clI, clDelay, clResult, clPayload, clPosts, clWaits, clSettled, clAll429,
              clLast, clUpCalls>>
bgVars   == <<bgPc, bgI, bgDelay, bgPosts, bgWaits>>
clVars   == <<uiVars, sendVars, bgVars>>
bubbleVars == <<bubblePc, bubbleMessage, bubbleShown>>
vars     == <<apiKey, imgVars, chatVars, clVars, bubbleVars>>

(***************************************************************************)
(* Strings are sequences of words, so that String.prototype.includes is a  *)
(* search and not a flag.  <<>> stands for undefined as well as for "":    *)
(* both are falsy and neither includes the pattern.                        *)
(***************************************************************************)
Absent == <<>>

QuotaPat == <<"Quota", "exceeded">>

MsgQuota    == <<"Quota", "exceeded", "for", "metric">>
MsgQuotaMid == <<"Resource", "exhausted", "Quota", "exceeded">>
MsgNear     == <<"Quota", "not", "exceeded">>
MsgOther    == <<"Internal", "error">>

\* s.includes(pat)
Includes(s, pat) ==
    \E k \in 1..(Len(s) - Len(pat) + 1) : SubSeq(s, k, k + Len(pat) - 1) = pat

\* !apiKey
KeyValues == {"undefined", "", "AIza"}

KeyMissingUndefinedOnly(k) == k = "undefined"

KeyMissing(k) == k \in {"undefined", ""}

(***************************************************************************)
(* JSON bodies of the image API.  error is {shape, words}: "none" when the *)
(* field is absent, "obj" for {message: words}, "str" for a bare string    *)
(* (the shape the handlers themselves answer with).                        *)
(***************************************************************************)
NoErr == [shape |-> "none", words |-> Absent]

ErrObj(w) == [shape |-> "obj", words |-> w]

ErrStr(w) == [shape |-> "str", words |-> w]

ImgBody(e, m, d) == [error |-> e, message |-> m, inline |-> d]

NoBody == ImgBody(NoErr, Absent, FALSE)

\* finalData?.error?.message
ErrorMessage(body) ==
    IF body.error.shape = "obj" THEN body.error.words ELSE Absent

ImgReject == [kind |-> "reject", status |-> 0, decodes |-> FALSE, body |-> NoBody]

ImgUp(s, b) == [kind |-> "resp", status |-> s, decodes |-> TRUE, body |-> b]

ImgUpBad(s) == [kind |-> "resp", status |-> s, decodes |-> FALSE, body |-> NoBody]

\* What one upstream fetch of the image model can come to.
ImgUpstream ==
    { ImgReject,
      ImgUp(200, ImgBody(NoErr, Absent, TRUE)),
      ImgUp(200, ImgBody(ErrObj(MsgQuotaMid), Absent, FALSE)),
      ImgUp(200, ImgBody(NoErr, MsgQuota, FALSE)),
      ImgUp(400, ImgBody(ErrObj(MsgNear), Absent, FALSE)),
      ImgUp(429, ImgBody(ErrObj(MsgOther), Absent, FALSE)),
      ImgUp(429, ImgBody(ErrObj(MsgQuota), Absent, FALSE)),
      ImgUp(500, ImgBody(ErrObj(MsgOther), Absent, FALSE)),
      ImgUpBad(200), ImgUpBad(429), ImgUpBad(500) }

\* Request bodies of the image route: await request.json().
ImgRequests == {"badjson", "noInstances", "noPrompt", "emptyPrompt", "prompt"}

\* const { instances } = await request.json(); instances?.prompt
UserPrompt(req) ==
    CASE req = "prompt"      -> "dragon"
      [] req = "emptyPrompt" -> ""
      [] OTHER               -> "undefined"

PromptMissingUndefinedOnly(p) == p = "undefined"

\* if (!userPrompt)
PromptMissing(p) == p \in {"undefined", ""}

MsgNoKeyImage == <<"API", "Key", "not", "configured", "for", "image", "generation">>
MsgNoPrompt   == <<"Missing", "image", "generation", "prompt">>
MsgCaught     == <<"caught">>
MsgParse      == <<"Failed", "to", "parse", "response", "from", "API">>

maxRetries == 5

BaseDelay == 1000

\* const isQuotaError = ...includes("Quota exceeded") || ...includes("Quota exceeded")
IsQuotaError(body) ==
    Includes(ErrorMessage(body), QuotaPat) \/ Includes(body.message, QuotaPat)

ImgRetryableAnyError(status, body) == status >= 400 \/ IsQuotaError(body)

\* if (response.status === 429 || isQuotaError)
ImgRetryable(status, body) == status = 429 \/ IsQuotaError(body)

AttemptsRemainOneFewer(i) == i < maxRetries - 2

\* if (i < maxRetries - 1)
AttemptsRemain(i) == i < maxRetries - 1

RelayStatusDefault(s) == 200

\* status: finalResponse?.status || 500
RelayStatus(s) == IF s # 0 THEN s ELSE 500

Reply(s, b) == [status |-> s, body |-> b]

NoReply == Reply(0, NoBody)


(***************************************************************************)
(* JSON bodies of the text API (GeminiResponse).  cand says how far        *)
(* candidates[0].content.parts[0].text exists; meta says how far           *)
(* candidates[0].groundingMetadata.groundingAttributions exists.           *)
(***************************************************************************)
Web(u, t) == [present |-> TRUE, uri |-> u, title |-> t]

NoWeb == [present |-> FALSE, uri |-> "undefined", title |-> "undefined"]

ChatBody(e, c, t, m, a) == [error |-> e, cand |-> c, text |-> t, meta |-> m, atts |-> a]

NoChatBody == ChatBody(NoErr, "none", Absent, "none", <<>>)

TextAnswer == <<"answer">>

AttsSample == << Web("a", "A"), NoWeb, Web("", "T"), Web("a", "A2"), Web("b", "undefined"),
                 Web("undefined", "T2") >>

ChatReject == [kind |-> "reject", status |-> 0, decodes |-> FALSE, body |-> NoChatBody]

ChatUp(s, b) == [kind |-> "resp", status |-> s, decodes |-> TRUE, body |-> b]

ChatUpBad(s) == [kind |-> "resp", status |-> s, decodes |-> FALSE, body |-> NoChatBody]

\* What one upstream fetch of the text model can come to.
ChatUpstream ==
    { ChatReject,
      ChatUpBad(200), ChatUpBad(502),
      ChatUp(200, ChatBody(NoErr, "text", TextAnswer, "none", <<>>)),
      ChatUp(200, ChatBody(NoErr, "text", TextAnswer, "atts", AttsSample)),
      ChatUp(200, ChatBody(NoErr, "text", Absent, "noAtts", <<>>)),
      ChatUp(200, ChatBody(NoErr, "none", Absent, "none", <<>>)),
      ChatUp(200, ChatBody(NoErr, "noParts", Absent, "none", <<>>)),
      ChatUp(200, ChatBody(NoErr, "noContent", Absent, "none", <<>>)),
      ChatUp(200, ChatBody(NoErr, "text", TextAnswer, "noAtts", <<>>)),
      ChatUp(200, ChatBody(ErrObj(MsgOther), "none", Absent, "none", <<>>)),
      ChatUp(400, ChatBody(ErrObj(MsgOther), "none", Absent, "none", <<>>)),
      ChatUp(429, ChatBody(ErrObj(MsgQuota), "none", Absent, "none", <<>>)),
      ChatUp(500, ChatBody(ErrObj(MsgOther), "none", Absent, "none", <<>>)) }

\* Request bodies of the chat route: await request.json(), then .contents.
ChatRequests == {"badjson", "null", "noContents", "contents"}

MsgNoKeyChat == <<"API", "Key", "not", "configured", "on", "the", "server">>

ChatError(s, w) == Reply(s, ChatBody(ErrStr(w), "none", Absent, "none", <<>>))

NoChatReply == Reply(0, NoChatBody)

\* Lines 13-26: the HEAD handler.
HEADReply(key) ==
    IF KeyMissing(key) THEN ChatError(500, MsgNoKeyChat) ELSE Reply(200, NoChatBody)

\* Lines 33-52: what POST answers before it calls upstream, NoChatReply when
\* it goes on to the call.
ChatGuard(key, req) ==
    IF KeyMissing(key) THEN ChatError(500, MsgNoKeyChat)
    ELSE IF req \in {"badjson", "null"} THEN ChatError(500, MsgCaught)
    ELSE NoChatReply

ChatRelayWrapsErrors(up) ==
    IF up.kind = "reject" \/ ~up.decodes \/ up.status >= 400
      THEN ChatError(500, MsgCaught)
      ELSE Reply(up.status, up.body)

\* Lines 57-74: what POST answers after its one upstream call.
ChatRelay(up) ==
    IF up.kind = "reject" \/ ~up.decodes
      THEN ChatError(500, MsgCaught)
      ELSE Reply(up.status, up.body)

(***************************************************************************)
(* Browser client: conversation turns, request mapping, response           *)
(* normalisation and the two retry loops of src/app/page.tsx.              *)
(***************************************************************************)
MaxSends == 2

MaxFairSends == 1

sendMaxRetries == 5

bgMaxRetries == 3

Turn(r, t) == [role |-> r, text |-> t, hasSources |-> FALSE, sources |-> <<>>]

AiTurn(t, srcs) == [role |-> "ai", text |-> t, hasSources |-> TRUE, sources |-> srcs]

AppendTurnCapped(prev, t) ==
    IF Len(prev) >= 4 THEN Append(Tail(prev), t) ELSE Append(prev, t)

\* Lines 227, 279, 310 and 315: setChatHistory(prev => [...prev, message]).
AppendTurn(prev, t) == Append(prev, t)

\* Line 98: the initial chatHistory.
Greeting == Turn("ai", <<"Hello", "Skathix!">>)

MsgRetriesFailed == <<"Error:", "Could", "not", "connect", "to", "the", "API",
                      "after", "multiple", "retries.">>
MsgUnexpected    == <<"An", "unexpected", "error", "occurred:">>
MsgMalformed     == <<"Received", "an", "empty", "or", "malformed", "response.">>

\* userInput.trim(), as its words; <<>> is the empty string.
UserInputs == { <<>>, <<"dragons">>, <<"describe", "a", "fire", "dragon">> }

\* Line 222: query.split(/\s+/).length > 3
LongQuery(q) == Len(q) > 3

ShouldGenerateBgIgnoresLoading(q, bgLoading) == LongQuery(q)

\* Line 222: shouldGenerateBg, backgroundLoading being the rendered value.
ShouldGenerateBg(q, bgLoading) == LongQuery(q) /\ ~bgLoading

MapHistoryKeepsRoles(h) ==
    [k \in 1..Len(h) |-> [role |-> h[k].role, parts |-> <<[text |-> h[k].text]>>]]

\* Lines 237-240: the conversation mapped to the API's contents.
MapHistory(h) ==
    [k \in 1..Len(h) |->
        [role |-> IF h[k].role = "user" THEN "user" ELSE "model",
         parts |-> <<[text |-> h[k].text]>>]]

\* response.ok
Ok(status) == status >= 200 /\ status <= 299

FindLastIndex(a, u) ==
    CHOOSE k \in 1..Len(a) : a[k].uri = u /\ \A j \in (k + 1)..Len(a) : a[j].uri # u

\* Line 60: a.findIndex(t => (t.uri === v.uri)), counted from 1; v is in a.
FindIndex(a, u) ==
    CHOOSE k \in 1..Len(a) : a[k].uri = u /\ \A j \in 1..(k - 1) : a[j].uri # u

UniqueUpToKeepsAll(a, n) == SubSeq(a, 1, n)

\* Line 60: a.filter((v, i, a) => a.findIndex(...) === i), over a[1..n].
RECURSIVE UniqueUpTo(_, _)
UniqueUpTo(a, n) ==
    IF n = 0 THEN <<>>
    ELSE IF FindIndex(a, a[n].uri) = n
      THEN Append(UniqueUpTo(a, n - 1), a[n])
      ELSE UniqueUpTo(a, n - 1)

\* Lines 59-61: uniqueSources of MessageBubble.
UniqueSources(message) ==
    IF message.hasSources
      THEN UniqueUpTo(message.sources, Len(message.sources))
      ELSE <<>>

MaxSources == 4

\* The Source values a stored list can hold: the uri is not empty.
SourcePool == { [uri |-> u, title |-> t] : u \in {"a", "b", "c"}, t \in {"T1", "T2"} }

\* The source lists of at most n entries.
SourceLists(n) == UNION { [1..k -> SourcePool] : k \in 0..n }

\* The messages a MessageBubble is rendered with.
BubbleMessages ==
    { Turn("user", <<"dragons">>) }
      \cup { AiTurn(TextAnswer, l) : l \in SourceLists(MaxSources) }

\* Line 124: fetch('/api/chat', { method: 'GET' }).
CheckMethod == "GET"

\* The methods the chat route exports.
ChatExports == {"HEAD", "POST"}

\* A request whose method the route does not export never enters the route's
\* code: the key plays no part in its answer.  The framework refuses it (405);
\* a deployment that answers it otherwise answers 200.
UnhandledStatuses == {200, 405}

\* The statuses the existence check can be answered with, the key being key.
CheckStatuses(key) ==
    IF CheckMethod \in ChatExports
      THEN {HEADReply(key).status}
      ELSE UnhandledStatuses

\* Line 290: result?.candidates?.[0]?.content?.parts?.[0]?.text
FirstText(body) == IF body.cand = "text" THEN body.text ELSE Absent

\* Lines 297-300: one attribution mapped to a Source.
ToSource(att) ==
    [uri   |-> IF att.present /\ att.uri \notin {"undefined", ""} THEN att.uri ELSE "",
     title |-> IF att.present THEN att.title ELSE "undefined"]

HasUriOrTitle(src) == src.uri # "" \/ src.title # "undefined"

\* Line 302: source.uri.length > 0
HasUri(src) == src.uri # ""

\* Lines 293-303.
ExtractSources(body) ==
    IF body.meta = "atts"
      THEN SelectSeq([k \in 1..Len(body.atts) |-> ToSource(body.atts[k])], HasUri)
      ELSE <<>>

ErrorDetailNoFallback(body) == ErrorMessage(body)

\* Line 313: result?.error?.message || "Received an empty or malformed response."
ErrorDetail(body) ==
    IF ErrorMessage(body) # Absent THEN ErrorMessage(body) ELSE MsgMalformed

\* Lines 289-316: the assistant turn made from the decoded body.
BuildTurn(body) ==
    IF FirstText(body) # Absent
      THEN AiTurn(FirstText(body), ExtractSources(body))
      ELSE Turn("ai", MsgUnexpected \o ErrorDetail(body))

\* What the proxy answers a POST of the client, the upstream outcome being up.
ProxyAnswer(key, up) ==
    IF ChatGuard(key, "contents") # NoChatReply
      THEN ChatGuard(key, "contents")
      ELSE ChatRelay(up)

\* The transport between browser and proxy: the response arrives whole, the
\* fetch rejects, or the body is cut short so that response.json() rejects.
NetOutcomes == {"ok", "reject", "cut"}

\* What fetch and response.json() give the client for one attempt.
Received(reply, net) ==
    CASE net = "reject" -> ChatReject
      [] net = "cut"    -> ChatUpBad(reply.status)
      [] OTHER          -> ChatUp(reply.status, reply.body)

SendAttemptsRemainOneMore(i) == i < sendMaxRetries

SendRefusedIgnoresLoading(query, ld, exists) == query = <<>> \/ ~exists

SendRefusedIgnoresKey(query, ld, exists) == query = <<>> \/ ld

\* Line 224: if (!query || loading || !apiKeyExists) return;
SendRefused(query, ld, exists) == query = <<>> \/ ld \/ ~exists

\* if (i < maxRetries - 1), line 262
SendAttemptsRemain(i) == i < sendMaxRetries - 1

SendCaughtGivesUp(i) == "giveup"

\* Lines 275-285: the catch block; it gives up on the last pass and waits
\* otherwise.
SendCaught(i) == IF i = sendMaxRetries - 1 THEN "giveup" ELSE "wait"

\* Lines 254-285: what one pass of the loop comes to.
SendVerdict(r, i) ==
    IF r.kind = "reject" THEN SendCaught(i)
    ELSE IF r.status = 429 /\ SendAttemptsRemain(i) THEN "wait"
    ELSE IF ~r.decodes THEN SendCaught(i)
    ELSE IF ~Ok(r.status) THEN SendCaught(i)
    ELSE "break"

SendResultShadowed(r, i, old) == old

\* Line 269: result = await response.json(), when the pass gets that far.
SendResult(r, i, old) ==
    IF r.kind = "resp" /\ ~(r.status = 429 /\ SendAttemptsRemain(i)) /\ r.decodes
      THEN r.body
      ELSE old

\* Everything one attempt of the client can receive, the key being key.
Receivable(key) ==
    { Received(ProxyAnswer(key, up), net) : up \in ChatUpstream, net \in NetOutcomes }

UpstreamCallsPerPostTwice(key) ==
    IF ChatGuard(key, "contents") # NoChatReply THEN 0 ELSE 2

\* The upstream calls the chat route makes for one POST it handles: none when
\* its guard answers (lines 35-52), else the one fetch of lines 57-61; the
\* route has no loop around it.
UpstreamCallsPerPost(key) ==
    IF ChatGuard(key, "contents") # NoChatReply THEN 0 ELSE 1

\* How an attempt ended, by what arrived.
SeenClass(r) ==
    IF r.kind = "reject" THEN "reject"
    ELSE IF r.status = 429 THEN "429"
    ELSE IF ~Ok(r.status) THEN "status"
    ELSE IF ~r.decodes THEN "undecodable"
    ELSE "ok"

\* The record kept of a settled attempt: its class, and its body when it is
\* a decoded 2xx.
Seen(r) ==
    [class |-> SeenClass(r),
     body |-> IF SeenClass(r) = "ok" THEN r.body ELSE NoChatBody]

NoneSeen == [class |-> "none", body |-> NoChatBody]

\* Outcomes of one request of generateAndSetBackground: data is
\* result?.predictions?.[0]?.bytesBase64Encoded.
BgUp(k, s, d, b) == [kind |-> k, status |-> s, decodes |-> d, data |-> b]

BgUpstream ==
    { BgUp("reject", 0, FALSE, ""),
      BgUp("resp", 200, TRUE, "iVBOR"),
      BgUp("resp", 200, TRUE, ""),
      BgUp("resp", 200, FALSE, ""),
      BgUp("resp", 403, TRUE, ""),
      BgUp("resp", 429, TRUE, "") }

\* if (i < maxRetries - 1), line 171
BgAttemptsRemain(i) == i < bgMaxRetries - 1

\* Lines 185-194.
BgCaught(i) == IF i = bgMaxRetries - 1 THEN "giveup" ELSE "wait"

\* Lines 163-194.
BgVerdict(r, i) ==
    IF r.kind = "reject" THEN BgCaught(i)
    ELSE IF r.status = 429 /\ BgAttemptsRemain(i) THEN "wait"
    ELSE IF ~r.decodes THEN BgCaught(i)
    ELSE IF r.data = "" THEN BgCaught(i)
    ELSE "break"

----------------------------------------------------------------------------
(* Image route POST *)

ImgEnterValidatesFirst ==
    /\ imgPc = "start"
    /\ IF imgReq = "badjson"
         THEN /\ imgResp' = Reply(500, ImgBody(ErrStr(MsgCaught), Absent, FALSE))
              /\ imgPc' = "done"
              /\ UNCHANGED <<imgI, imgDelay>>
         ELSE IF PromptMissing(UserPrompt(imgReq))
         THEN /\ imgResp' = Reply(400, ImgBody(ErrStr(MsgNoPrompt), Absent, FALSE))
              /\ imgPc' = "done"
              /\ UNCHANGED <<imgI, imgDelay>>
         ELSE IF KeyMissing(apiKey)
         THEN /\ imgResp' = Reply(500, ImgBody(ErrStr(MsgNoKeyImage), Absent, FALSE))
              /\ imgPc' = "done"
              /\ UNCHANGED <<imgI, imgDelay>>
         ELSE /\ imgPc' = "fetch"
              /\ imgI' = 0
              /\ imgDelay' = BaseDelay
              /\ UNCHANGED imgResp
    /\ UNCHANGED <<apiKey, bubbleVars, imgReq, imgFinalStatus, imgFinalData, imgHist, imgWaits,
                   chatVars, clVars>>

\* Lines 35-66: key check, request decoding, prompt check, loop set-up.
ImgEnter ==
    /\ imgPc = "start"
    /\ IF KeyMissing(apiKey)
         THEN /\ imgResp' = Reply(500, ImgBody(ErrStr(MsgNoKeyImage), Absent, FALSE))
              /\ imgPc' = "done"
              /\ UNCHANGED <<imgI, imgDelay>>
         ELSE IF imgReq = "badjson"
         THEN /\ imgResp' = Reply(500, ImgBody(ErrStr(MsgCaught), Absent, FALSE))
              /\ imgPc' = "done"
              /\ UNCHANGED <<imgI, imgDelay>>
         ELSE IF PromptMissing(UserPrompt(imgReq))
         THEN /\ imgResp' = Reply(400, ImgBody(ErrStr(MsgNoPrompt), Absent, FALSE))
              /\ imgPc' = "done"
              /\ UNCHANGED <<imgI, imgDelay>>
         ELSE /\ imgPc' = "fetch"
              /\ imgI' = 0
              /\ imgDelay' = BaseDelay
              /\ UNCHANGED imgResp
    /\ UNCHANGED <<apiKey, bubbleVars, imgReq, imgFinalStatus, imgFinalData, imgHist, imgWaits,
                   chatVars, clVars>>

ImgFetchRetriesRejections ==
    /\ imgPc = "fetch"
    /\ \E up \in ImgUpstream :
         /\ imgHist' = Append(imgHist, up)
         /\ IF up.kind = "reject"
              THEN IF AttemptsRemain(imgI)
                     THEN /\ imgPc' = "wait"
                          /\ UNCHANGED <<imgFinalStatus, imgFinalData, imgResp>>
                     ELSE /\ imgResp' = Reply(500, ImgBody(ErrStr(MsgCaught), Absent, FALSE))
                          /\ imgPc' = "done"
                          /\ UNCHANGED <<imgFinalStatus, imgFinalData>>
              ELSE IF ~up.decodes
              THEN /\ imgFinalStatus' = up.status
                   /\ IF AttemptsRemain(imgI)
                        THEN /\ imgPc' = "wait"
                             /\ UNCHANGED <<imgFinalData, imgResp>>
                        ELSE /\ imgFinalData' = ImgBody(ErrObj(MsgParse), Absent, FALSE)
                             /\ imgResp' = Reply(RelayStatus(imgFinalStatus'), imgFinalData')
                             /\ imgPc' = "done"
              ELSE /\ imgFinalStatus' = up.status
                   /\ imgFinalData' = up.body
                   /\ IF ImgRetryable(up.status, up.body) /\ AttemptsRemain(imgI)
                        THEN /\ imgPc' = "wait"
                             /\ UNCHANGED imgResp
                        ELSE /\ imgResp' = Reply(RelayStatus(imgFinalStatus'), imgFinalData')
                             /\ imgPc' = "done"
    /\ UNCHANGED <<apiKey, bubbleVars, imgReq, imgI, imgDelay, imgWaits, chatVars, clVars>>

ImgFetchDecodeFailureFatal ==
    /\ imgPc = "fetch"
    /\ \E up \in ImgUpstream :
         /\ imgHist' = Append(imgHist, up)
         /\ IF up.kind = "reject" \/ ~up.decodes
              THEN /\ imgResp' = Reply(500, ImgBody(ErrStr(MsgCaught), Absent, FALSE))
                   /\ imgPc' = "done"
                   /\ UNCHANGED <<imgFinalStatus, imgFinalData>>
              ELSE /\ imgFinalStatus' = up.status
                   /\ imgFinalData' = up.body
                   /\ IF ImgRetryable(up.status, up.body) /\ AttemptsRemain(imgI)
                        THEN /\ imgPc' = "wait"
                             /\ UNCHANGED imgResp
                        ELSE /\ imgResp' = Reply(RelayStatus(imgFinalStatus'), imgFinalData')
                             /\ imgPc' = "done"
    /\ UNCHANGED <<apiKey, bubbleVars, imgReq, imgI, imgDelay, imgWaits, chatVars, clVars>>

\* Lines 68-111 and 113-117: one pass of the loop body, from the fetch to the
\* continue, or to the break and the return that follows it.
ImgFetch ==
    /\ imgPc = "fetch"
    /\ \E up \in ImgUpstream :
         /\ imgHist' = Append(imgHist, up)
         /\ IF up.kind = "reject"
              THEN /\ imgResp' = Reply(500, ImgBody(ErrStr(MsgCaught), Absent, FALSE))
                   /\ imgPc' = "done"
                   /\ UNCHANGED <<imgFinalStatus, imgFinalData>>
              ELSE IF ~up.decodes
              THEN /\ imgFinalStatus' = up.status
                   /\ IF AttemptsRemain(imgI)
                        THEN /\ imgPc' = "wait"
                             /\ UNCHANGED <<imgFinalData, imgResp>>
                        ELSE /\ imgFinalData' = ImgBody(ErrObj(MsgParse), Absent, FALSE)
                             /\ imgResp' = Reply(RelayStatus(imgFinalStatus'), imgFinalData')
                             /\ imgPc' = "done"
              ELSE /\ imgFinalStatus' = up.status
                   /\ imgFinalData' = up.body
                   /\ IF ImgRetryable(up.status, up.body) /\ AttemptsRemain(imgI)
                        THEN /\ imgPc' = "wait"
                             /\ UNCHANGED imgResp
                        ELSE /\ imgResp' = Reply(RelayStatus(imgFinalStatus'), imgFinalData')
                             /\ imgPc' = "done"
    /\ UNCHANGED <<apiKey, bubbleVars, imgReq, imgI, imgDelay, imgWaits, chatVars, clVars>>

\* Lines 82-84 and 98-100: await setTimeout(delay); delay *= 2; continue; then
\* i++ and the loop test of line 68, whose exit leads to the return of line 109.
ImgWait ==
    /\ imgPc = "wait"
    /\ imgWaits' = Append(imgWaits, imgDelay)
    /\ imgDelay' = imgDelay * 2
    /\ imgI' = imgI + 1
    /\ IF imgI' < maxRetries
         THEN /\ imgPc' = "fetch"
              /\ UNCHANGED imgResp
         ELSE /\ imgResp' = Reply(RelayStatus(imgFinalStatus), imgFinalData)
              /\ imgPc' = "done"
    /\ UNCHANGED <<apiKey, bubbleVars, imgReq, imgFinalStatus, imgFinalData, imgHist,
                   chatVars, clVars>>


----------------------------------------------------------------------------
(* Chat route HEAD and POST *)

\* Lines 13-26.
ChatHEAD ==
    /\ chatPc = "start"
    /\ chatMethod = "HEAD"
    /\ chatResp' = HEADReply(apiKey)
    /\ chatPc' = "done"
    /\ UNCHANGED <<apiKey, bubbleVars, chatMethod, chatReq, chatHist, chatWaits, imgVars, clVars>>

\* Lines 33-52.
ChatEnter ==
    /\ chatPc = "start"
    /\ chatMethod = "POST"
    /\ IF ChatGuard(apiKey, chatReq) # NoChatReply
         THEN /\ chatResp' = ChatGuard(apiKey, chatReq)
              /\ chatPc' = "done"
         ELSE /\ chatPc' = "fetch"
              /\ UNCHANGED chatResp
    /\ UNCHANGED <<apiKey, bubbleVars, chatMethod, chatReq, chatHist, chatWaits, imgVars, clVars>>

ChatFetchRetrying ==
    /\ chatPc = "fetch"
    /\ \E up \in ChatUpstream :
         /\ chatHist' = Append(chatHist, up)
         /\ IF up.kind = "resp" /\ up.status = 429 /\ AttemptsRemain(Len(chatHist))
              THEN /\ chatWaits' = Append(chatWaits, BaseDelay)
                   /\ UNCHANGED <<chatResp, chatPc>>
              ELSE /\ chatResp' = ChatRelay(up)
                   /\ chatPc' = "done"
                   /\ UNCHANGED chatWaits
    /\ UNCHANGED <<apiKey, bubbleVars, chatMethod, chatReq, imgVars, clVars>>

\* Lines 57-74: the single upstream call and the relay of its outcome.
ChatFetch ==
    /\ chatPc = "fetch"
    /\ \E up \in ChatUpstream :
         /\ chatHist' = Append(chatHist, up)
         /\ chatResp' = ChatRelay(up)
         /\ chatPc' = "done"
    /\ UNCHANGED <<apiKey, bubbleVars, chatMethod, chatReq, chatWaits, imgVars, clVars>>

----------------------------------------------------------------------------
(* Browser client *)

\* Lines 110-143: initializeAuth, from the mount to setLoading(false): the
\* check's fetch resolves with one of the statuses the route can give it, or
\* rejects.
InitializeAuth ==
    /\ clPc = "init"
    /\ \E s \in CheckStatuses(apiKey), net \in {"ok", "reject"} :
         apiKeyExists' = IF net = "ok" /\ Ok(s) THEN apiKeyExists ELSE FALSE
    /\ userId' = "anonymous-user"
    /\ loading' = FALSE
    /\ clPc' = "idle"
    /\ UNCHANGED <<apiKey, bubbleVars, imgVars, chatVars, chatHistory, backgroundLoading,
                   backgroundImage, sends, clI, clDelay, clResult, clPayload,
                   clPosts, clWaits, clSettled, clAll429, clLast, clUpCalls, bgVars>>

\* Lines 220-259: sendMessage from its call to the first fetch, with the
\* start of generateAndSetBackground (lines 146-168) when it is made.
SendMessageUpTo(n) ==
    /\ clPc # "off"
    /\ sends < n
    /\ \E query \in UserInputs :
         IF SendRefused(query, loading, apiKeyExists)
           THEN UNCHANGED vars
           ELSE /\ chatHistory' = AppendTurn(chatHistory, Turn("user", query))
                /\ loading' = TRUE
                /\ sends' = sends + 1
                /\ IF ShouldGenerateBg(query, backgroundLoading)
                     THEN /\ backgroundLoading' = TRUE
                          /\ bgPc' = "fetch"
                          /\ bgI' = 0
                          /\ bgDelay' = BaseDelay
                          /\ bgPosts' = 1
                          /\ bgWaits' = <<>>
                     ELSE UNCHANGED <<backgroundLoading, bgVars>>
                /\ clPayload' = MapHistory(Append(chatHistory, Turn("user", query)))
                /\ clI' = 0
                /\ clDelay' = BaseDelay
                /\ clResult' = NoChatBody
                /\ clPosts' = 1
                /\ clWaits' = <<>>
                /\ clSettled' = 0
                /\ clAll429' = TRUE
                /\ clLast' = NoneSeen
                /\ clUpCalls' = 0
                /\ clPc' = "fetch"
                /\ UNCHANGED <<apiKey, bubbleVars, imgVars, chatVars, apiKeyExists, userId,
                               backgroundImage>>

\* sendMessage in a session of at most MaxSends sends.
SendMessage == SendMessageUpTo(MaxSends)

\* sendMessage in a session of at most MaxFairSends sends.
FirstSends == SendMessageUpTo(MaxFairSends)

SendSettleLeavesLoading ==
    /\ clPc = "fetch"
    /\ \E r \in Receivable(apiKey) :
         LET v == SendVerdict(r, clI)
         IN  /\ clLast' = Seen(r)
             /\ clUpCalls' = clUpCalls + UpstreamCallsPerPost(apiKey)
             /\ clAll429' = (clSettled = 0 \/ (clAll429 /\ clLast.class = "429"))
             /\ clSettled' = clSettled + 1
             /\ clResult' = SendResult(r, clI, clResult)
             /\ CASE v = "wait" ->
                       /\ clPc' = "wait"
                       /\ UNCHANGED <<chatHistory, loading>>
                  [] v = "giveup" ->
                       /\ chatHistory' = AppendTurn(chatHistory, Turn("ai", MsgRetriesFailed))
                       /\ UNCHANGED loading
                       /\ clPc' = "idle"
                  [] OTHER ->
                       /\ chatHistory' = AppendTurn(chatHistory, BuildTurn(clResult'))
                       /\ loading' = FALSE
                       /\ clPc' = "idle"
    /\ UNCHANGED <<apiKey, bubbleVars, imgVars, chatVars, apiKeyExists, userId, backgroundLoading,
                   backgroundImage, sends, clI, clDelay, clPayload, clPosts, clWaits,
                   bgVars>>

SendSettleFallsThrough ==
    /\ clPc = "fetch"
    /\ \E r \in Receivable(apiKey) :
         LET v == SendVerdict(r, clI)
         IN  /\ clLast' = Seen(r)
             /\ clUpCalls' = clUpCalls + UpstreamCallsPerPost(apiKey)
             /\ clAll429' = (clSettled = 0 \/ (clAll429 /\ clLast.class = "429"))
             /\ clSettled' = clSettled + 1
             /\ clResult' = SendResult(r, clI, clResult)
             /\ CASE v = "wait" ->
                       /\ clPc' = "wait"
                       /\ UNCHANGED <<chatHistory, loading>>
                  [] v = "giveup" ->
                       /\ chatHistory' = AppendTurn(AppendTurn(chatHistory,
                                              Turn("ai", MsgRetriesFailed)),
                                              BuildTurn(clResult'))
                       /\ loading' = FALSE
                       /\ clPc' = "idle"
                  [] OTHER ->
                       /\ chatHistory' = AppendTurn(chatHistory, BuildTurn(clResult'))
                       /\ loading' = FALSE
                       /\ clPc' = "idle"
    /\ UNCHANGED <<apiKey, bubbleVars, imgVars, chatVars, apiKeyExists, userId, backgroundLoading,
                   backgroundImage, sends, clI, clDelay, clPayload, clPosts, clWaits,
                   bgVars>>

\* Lines 255-286 and 288-318: the fetch settles; the pass ends in a wait, in
\* the fixed error turn, or in the turn made from the decoded body.
SendSettle ==
    /\ clPc = "fetch"
    /\ \E r \in Receivable(apiKey) :
         LET v == SendVerdict(r, clI)
         IN  /\ clLast' = Seen(r)
             /\ clUpCalls' = clUpCalls + UpstreamCallsPerPost(apiKey)
             /\ clAll429' = (clSettled = 0 \/ (clAll429 /\ clLast.class = "429"))
             /\ clSettled' = clSettled + 1
             /\ clResult' = SendResult(r, clI, clResult)
             /\ CASE v = "wait" ->
                       /\ clPc' = "wait"
                       /\ UNCHANGED <<chatHistory, loading>>
                  [] v = "giveup" ->
                       /\ chatHistory' = AppendTurn(chatHistory, Turn("ai", MsgRetriesFailed))
                       /\ loading' = FALSE
                       /\ clPc' = "idle"
                  [] OTHER ->
                       /\ chatHistory' = AppendTurn(chatHistory, BuildTurn(clResult'))
                       /\ loading' = FALSE
                       /\ clPc' = "idle"
    /\ UNCHANGED <<apiKey, bubbleVars, imgVars, chatVars, apiKeyExists, userId, backgroundLoading,
                   backgroundImage, sends, clI, clDelay, clPayload, clPosts, clWaits,
                   bgVars>>

\* Lines 263-265 and 283-284: the timer fires; delay *= 2, i++ and the loop
\* test of line 253: the next fetch, or the exit to line 289.
SendTimer ==
    /\ clPc = "wait"
    /\ clWaits' = Append(clWaits, clDelay)
    /\ clDelay' = clDelay * 2
    /\ clI' = clI + 1
    /\ IF clI' < sendMaxRetries
         THEN /\ clPosts' = clPosts + 1
              /\ clPc' = "fetch"
              /\ UNCHANGED <<chatHistory, loading>>
         ELSE /\ chatHistory' = AppendTurn(chatHistory, BuildTurn(clResult))
              /\ loading' = FALSE
              /\ clPc' = "idle"
              /\ UNCHANGED clPosts
    /\ UNCHANGED <<apiKey, bubbleVars, imgVars, chatVars, apiKeyExists, userId, backgroundLoading,
                   backgroundImage, sends, clResult, clPayload, clSettled, clAll429,
                   clLast, clUpCalls, bgVars>>

\* generateAndSetBackground returns: its locals are gone.
BgReturn ==
    /\ bgPc' = "idle"
    /\ bgI' = 0
    /\ bgDelay' = 0
    /\ bgPosts' = 0
    /\ bgWaits' = <<>>

BgSettleClearsLoading ==
    /\ bgPc = "fetch"
    /\ \E r \in BgUpstream :
         LET v == BgVerdict(r, bgI)
         IN  CASE v = "wait" ->
                    /\ bgPc' = "wait"
                    /\ UNCHANGED <<backgroundLoading, backgroundImage, bgI, bgDelay,
                                   bgPosts, bgWaits, loading>>
               [] v = "giveup" ->
                    /\ backgroundLoading' = FALSE
                    /\ loading' = FALSE
                    /\ UNCHANGED backgroundImage
                    /\ BgReturn
               [] OTHER ->
                    /\ backgroundImage' = r.data
                    /\ backgroundLoading' = FALSE
                    /\ loading' = FALSE
                    /\ BgReturn
    /\ UNCHANGED <<apiKey, bubbleVars, imgVars, chatVars, chatHistory, apiKeyExists,
                   userId, sends, sendVars>>

BgSettleGiveUpKeepsLoading ==
    /\ bgPc = "fetch"
    /\ \E r \in BgUpstream :
         LET v == BgVerdict(r, bgI)
         IN  CASE v = "wait" ->
                    /\ bgPc' = "wait"
                    /\ UNCHANGED <<backgroundLoading, backgroundImage, bgI, bgDelay,
                                   bgPosts, bgWaits>>
               [] v = "giveup" ->
                    /\ UNCHANGED <<backgroundLoading, backgroundImage>>
                    /\ BgReturn
               [] OTHER ->
                    /\ backgroundImage' = r.data
                    /\ backgroundLoading' = FALSE
                    /\ BgReturn
    /\ UNCHANGED <<apiKey, bubbleVars, imgVars, chatVars, chatHistory, loading, apiKeyExists,
                   userId, sends, sendVars>>

\* Lines 164-201: a request of the background generation settles.
BgSettle ==
    /\ bgPc = "fetch"
    /\ \E r \in BgUpstream :
         LET v == BgVerdict(r, bgI)
         IN  CASE v = "wait" ->
                    /\ bgPc' = "wait"
                    /\ UNCHANGED <<backgroundLoading, backgroundImage, bgI, bgDelay,
                                   bgPosts, bgWaits>>
               [] v = "giveup" ->
                    /\ backgroundLoading' = FALSE
                    /\ UNCHANGED backgroundImage
                    /\ BgReturn
               [] OTHER ->
                    /\ backgroundImage' = r.data
                    /\ backgroundLoading' = FALSE
                    /\ BgReturn
    /\ UNCHANGED <<apiKey, bubbleVars, imgVars, chatVars, chatHistory, loading, apiKeyExists,
                   userId, sends, sendVars>>

BgTimerNoDoubling ==
    /\ bgPc = "wait"
    /\ bgWaits' = Append(bgWaits, bgDelay)
    /\ bgDelay' = bgDelay
    /\ bgI' = bgI + 1
    /\ bgPosts' = bgPosts + 1
    /\ bgPc' = "fetch"
    /\ UNCHANGED <<apiKey, bubbleVars, imgVars, chatVars, uiVars, sendVars>>

\* Lines 172-174 and 192-193: the timer fires; delay *= 2, i++ and the loop
\* test of line 162: the next fetch, or the exit to line 197 with base64Data
\* undefined.
BgTimer ==
    /\ bgPc = "wait"
    /\ IF bgI + 1 < bgMaxRetries
         THEN /\ bgWaits' = Append(bgWaits, bgDelay)
              /\ bgDelay' = bgDelay * 2
              /\ bgI' = bgI + 1
              /\ bgPosts' = bgPosts + 1
              /\ bgPc' = "fetch"
              /\ UNCHANGED backgroundLoading
         ELSE /\ backgroundLoading' = FALSE
              /\ BgReturn
    /\ UNCHANGED <<apiKey, bubbleVars, imgVars, chatVars, chatHistory, loading, apiKeyExists,
                   userId, backgroundImage, sends, sendVars>>

----------------------------------------------------------------------------
(* MessageBubble *)

\* Lines 57-61: the component is called with a message and computes the
\* source list it shows.
MessageBubble ==
    /\ bubblePc = "props"
    /\ bubbleShown' = UniqueSources(bubbleMessage)
    /\ bubblePc' = "shown"
    /\ UNCHANGED <<apiKey, bubbleMessage, imgVars, chatVars, clVars>>

----------------------------------------------------------------------------
ImageIdle ==
    /\ imgPc = "off"
    /\ imgReq = "prompt"
    /\ imgI = 0
    /\ imgDelay = 0
    /\ imgFinalStatus = 0
    /\ imgFinalData = NoBody
    /\ imgResp = NoReply
    /\ imgHist = <<>>
    /\ imgWaits = <<>>

ChatIdle ==
    /\ chatPc = "off"
    /\ chatMethod = "POST"
    /\ chatReq = "none"
    /\ chatResp = NoChatReply
    /\ chatHist = <<>>
    /\ chatWaits = <<>>

\* Lines 97-107: the useState initial values.
ClientState(pc) ==
    /\ clPc = pc
    /\ chatHistory = <<Greeting>>
    /\ loading = TRUE
    /\ apiKeyExists = TRUE
    /\ userId = "Initializing..."
    /\ backgroundLoading = FALSE
    /\ backgroundImage = ""
    /\ sends = 0
    /\ clI = 0
    /\ clDelay = 0
    /\ clResult = NoChatBody
    /\ clPayload = <<>>
    /\ clPosts = 0
    /\ clWaits = <<>>
    /\ clSettled = 0
    /\ clAll429 = TRUE
    /\ clLast = NoneSeen
    /\ clUpCalls = 0
    /\ bgPc = "idle"
    /\ bgI = 0
    /\ bgDelay = 0
    /\ bgPosts = 0
    /\ bgWaits = <<>>

BubbleIdle ==
    /\ bubblePc = "off"
    /\ bubbleMessage = Greeting
    /\ bubbleShown = <<>>

InitImage ==
    /\ apiKey \in KeyValues
    /\ imgPc = "start"
    /\ imgReq \in ImgRequests
    /\ imgI = 0
    /\ imgDelay = 0
    /\ imgFinalStatus = 0
    /\ imgFinalData = NoBody
    /\ imgResp = NoReply
    /\ imgHist = <<>>
    /\ imgWaits = <<>>
    /\ ChatIdle
    /\ ClientState("off")
    /\ BubbleIdle

NextImage == ImgEnter \/ ImgFetch \/ ImgWait

SpecImage == InitImage /\ [][NextImage]_vars

\* One server process with a request to each route in flight.
InitServer ==
    /\ apiKey \in KeyValues
    /\ imgPc = "start"
    /\ imgReq \in ImgRequests
    /\ imgI = 0
    /\ imgDelay = 0
    /\ imgFinalStatus = 0
    /\ imgFinalData = NoBody
    /\ imgResp = NoReply
    /\ imgHist = <<>>
    /\ imgWaits = <<>>
    /\ chatPc = "start"
    /\ \/ chatMethod = "HEAD" /\ chatReq = "none"
       \/ chatMethod = "POST" /\ chatReq \in ChatRequests
    /\ chatResp = NoChatReply
    /\ chatHist = <<>>
    /\ chatWaits = <<>>
    /\ ClientState("off")
    /\ BubbleIdle

NextServer == ImgEnter \/ ImgFetch \/ ImgWait \/ ChatHEAD \/ ChatEnter \/ ChatFetch

SpecServer == InitServer /\ [][NextServer]_vars

\* A browser session against a deployment whose key is set or not.
InitClient ==
    /\ apiKey \in KeyValues
    /\ ImageIdle
    /\ ChatIdle
    /\ ClientState("init")
    /\ BubbleIdle

NextClient == InitializeAuth \/ SendMessage \/ SendSettle \/ SendTimer \/ BgSettle \/ BgTimer

SpecClient == InitClient /\ [][NextClient]_vars

\* One MessageBubble rendered with a message the conversation can hold.
InitBubble ==
    /\ apiKey = "AIza"
    /\ ImageIdle
    /\ ChatIdle
    /\ ClientState("off")
    /\ bubblePc = "props"
    /\ bubbleMessage \in BubbleMessages
    /\ bubbleShown = <<>>

NextBubble == MessageBubble

SpecBubble == InitBubble /\ [][NextBubble]_vars

NextClientFair == InitializeAuth \/ FirstSends \/ SendSettle \/ SendTimer \/ BgSettle \/ BgTimer

\* A session of at most MaxFairSends sends in which every fetch settles and
\* every timer fires.
SpecClientFair ==
    /\ InitClient
    /\ [][NextClientFair]_vars
    /\ WF_vars(SendSettle) /\ WF_vars(SendTimer)
    /\ WF_vars(BgSettle) /\ WF_vars(BgTimer)

Init == InitImage \/ InitClient

Next == NextImage \/ NextClient

Spec == Init /\ [][Next]_vars

----------------------------------------------------------------------------
(* Properties *)

KeyAbsent == apiKey \in {"undefined", ""}

\* An upstream response whose body decodes and that is retryable: status 429,
\* or "Quota exceeded" in error.message or in the top-level message.
SaysRetry(up) ==
    /\ up.kind = "resp"
    /\ up.decodes
    /\ \/ up.status = 429
       \/ Includes(ErrorMessage(up.body), <<"Quota", "exceeded">>)
       \/ Includes(up.body.message, <<"Quota", "exceeded">>)

\* A decodable upstream response with status 429.
SaysRetry429(up) == up.kind = "resp" /\ up.decodes /\ up.status = 429

\* An upstream response whose body decodes and that is not retryable.
SaysStop(up) ==
    /\ up.kind = "resp"
    /\ up.decodes
    /\ up.status # 429
    /\ ~Includes(ErrorMessage(up.body), <<"Quota", "exceeded">>)
    /\ ~Includes(up.body.message, <<"Quota", "exceeded">>)

\* C1: image route, key set and prompt present: when every upstream response
\* decodes and is retryable, the handler has made exactly 5 upstream calls
\* when it answers, and its answer is the 5th response's status and body.
C1_AllRetryableRelaysFifth ==
    /\ Len(imgHist) <= 5
    /\ (imgPc = "done" /\ imgHist # <<>>
           /\ \A k \in 1..Len(imgHist) : SaysRetry(imgHist[k]))
         => /\ Len(imgHist) = 5
            /\ imgResp = Reply(imgHist[5].status, imgHist[5].body)

C1_Witness ==
    /\ imgPc = "done"
    /\ Len(imgHist) = 5
    /\ \A k \in 1..5 : SaysRetry(imgHist[k])
    /\ imgHist[5].status = 429
    /\ imgHist[4].status = 200
    /\ imgResp.status = 429

\* C2: image route: the first decodable, non-retryable upstream response, at
\* attempt k, is the last call; k - 1 waits were made, none follows it, and
\* the answer is that response's status and body.
C2_FirstStopIsRelayed ==
    \A k \in 1..Len(imgHist) :
        SaysStop(imgHist[k])
          => /\ Len(imgHist) = k
             /\ imgPc = "done"
             /\ Len(imgWaits) = k - 1
             /\ imgResp = Reply(imgHist[k].status, imgHist[k].body)

C2_Witness ==
    /\ imgPc = "done"
    /\ Len(imgHist) = 3
    /\ SaysStop(imgHist[3])
    /\ imgHist[3].status = 500
    /\ SaysRetry(imgHist[1])
    /\ ~imgHist[2].decodes

\* C3: sendMessage: when every attempt before the k-th was answered 429 and
\* the k-th is a 2xx whose body decodes, the send is over with exactly k POSTs
\* made and its assistant turn is the one built from the k-th body.
C3_SuccessAfter429s ==
    (clLast.class = "ok" /\ clAll429)
      => /\ clPc = "idle"
         /\ ~loading
         /\ clPosts = clSettled
         /\ clSettled <= 5
         /\ Len(chatHistory) = 1 + 2 * sends
         /\ chatHistory[Len(chatHistory)] = BuildTurn(clLast.body)

C3_Witness ==
    /\ clLast.class = "ok" /\ clAll429
    /\ clSettled = 3 /\ clPosts = 3
    /\ chatHistory[Len(chatHistory)].text = TextAnswer
    /\ Len(chatHistory[Len(chatHistory)].sources) = 3

\* C4, as claimed: in sendMessage a response with a non-2xx status other than
\* 429 ends the send: no wait follows it and no further POST is made.
C4_ErrorStatusNotRetried ==
    (clLast.class = "status")
      => /\ clPc = "idle"
         /\ clPosts = clSettled
         /\ clSettled = 1 => clPosts = 1 /\ clWaits = <<>>

\* C4, amended: such a response is handled like a thrown error: on attempts
\* 1 to 4 the send waits and POSTs again, and on attempt 5 it ends with the
\* fixed error turn.
C4_ErrorStatusRetried ==
    (clLast.class = "status" /\ clPosts = clSettled)
      => IF clSettled < 5
           THEN clPc = "wait" /\ loading
           ELSE /\ clSettled = 5
                /\ clPc = "idle" /\ ~loading
                /\ chatHistory[Len(chatHistory)] = Turn("ai", MsgRetriesFailed)

C4_Witness ==
    /\ clLast.class = "status"
    /\ clAll429 /\ clSettled = 1
    /\ clPc = "wait"

\* The waits of one loop double from 1000 ms.
RECURSIVE Pow2(_)
Pow2(n) == IF n = 0 THEN 1 ELSE 2 * Pow2(n - 1)

Doubling(w) == \A j \in 1..Len(w) : w[j] = 1000 * Pow2(j - 1)

\* C5: in the three retry loops the j-th wait is 1000 * 2^(j-1) ms and lies
\* between attempt j and attempt j+1: none precedes the first attempt and none
\* follows the last one.
C5_BackoffDoubles ==
    /\ Doubling(imgWaits) /\ Doubling(clWaits) /\ Doubling(bgWaits)
    /\ imgPc = "fetch" => Len(imgWaits) = Len(imgHist)
    /\ imgPc \in {"wait", "done"} /\ imgHist # <<>> => Len(imgWaits) = Len(imgHist) - 1
    /\ imgPc = "wait" => Len(imgHist) < 5
    /\ imgHist = <<>> => imgWaits = <<>>
    /\ clPc = "fetch" => Len(clWaits) = clSettled /\ clPosts = clSettled + 1
    /\ clPc \in {"wait", "idle"} /\ clSettled > 0
         => Len(clWaits) = clSettled - 1 /\ clPosts = clSettled
    /\ clPc = "wait" => clSettled < 5
    /\ clSettled = 0 => clWaits = <<>>
    /\ bgPc = "fetch" => Len(bgWaits) = bgPosts - 1 /\ bgPosts = bgI + 1
    /\ bgPc = "wait" => Len(bgWaits) = bgPosts - 1 /\ bgPosts = bgI + 1 /\ bgPosts < 3
    /\ bgPc = "idle" => bgWaits = <<>>

C5_Witness ==
    /\ clPc = "idle"
    /\ clWaits = <<1000, 2000, 4000, 8000>>
    /\ clLast.class = "undecodable"
    /\ bgPc = "fetch"
    /\ bgWaits = <<1000, 2000>>

\* C6: with the key absent, the HEAD handler, the chat POST and the image
\* POST answer 500 and never call upstream, whatever the request body.
C6_NoKeyIs500NoUpstream ==
    KeyAbsent
      => /\ imgHist = <<>> /\ chatHist = <<>>
         /\ imgPc \in {"start", "done"} /\ chatPc \in {"start", "done"}
         /\ imgPc = "done" => imgResp.status = 500
         /\ chatPc = "done" => chatResp.status = 500

C6_Witness ==
    /\ apiKey = ""
    /\ imgPc = "done" /\ imgReq = "prompt"
    /\ chatPc = "done" /\ chatMethod = "HEAD"

\* C7: image route: a request with the key absent and the prompt missing is
\* answered 500, not 400.
C7_KeyCheckBeforePrompt ==
    (KeyAbsent /\ imgReq \in {"noInstances", "noPrompt", "emptyPrompt"} /\ imgPc = "done")
      => imgResp.status = 500 /\ imgResp.body.error.words = MsgNoKeyImage

C7_Witness ==
    KeyAbsent /\ imgReq = "noPrompt" /\ imgPc = "done" /\ imgResp.status = 500

\* C8: image route, key set: instances absent, instances without prompt and
\* an empty prompt are answered 400 without an upstream call.
C8_MissingPromptIs400 ==
    (~KeyAbsent /\ imgReq \in {"noInstances", "noPrompt", "emptyPrompt"})
      => /\ imgHist = <<>>
         /\ imgPc \in {"start", "done"}
         /\ imgPc = "done" => imgResp.status = 400

C8_Witness ==
    ~KeyAbsent /\ imgReq = "emptyPrompt" /\ imgPc = "done" /\ imgResp.status = 400

\* C9: chat route POST, key set: when the upstream body decodes, the answer
\* is the upstream status with the upstream body, error responses included.
C9_ChatRelaysVerbatim ==
    (chatPc = "done" /\ chatMethod = "POST" /\ chatHist # <<>>
        /\ chatHist[Len(chatHist)].decodes)
      => chatResp = Reply(chatHist[Len(chatHist)].status, chatHist[Len(chatHist)].body)

C9_Witness ==
    /\ chatPc = "done" /\ chatMethod = "POST"
    /\ Len(chatHist) = 1
    /\ chatHist[1].decodes
    /\ chatHist[1].status = 500
    /\ chatResp.status = 500 /\ chatResp.body.error = ErrObj(MsgOther)

\* C10, as claimed: a chat POST whose first upstream answer is 429 has waited
\* and called upstream again before it answers.
C10_ChatRetriesOn429 ==
    (chatPc = "done" /\ chatHist # <<>> /\ SaysRetry429(chatHist[1]))
      => Len(chatHist) >= 2 /\ Len(chatWaits) >= 1

\* C10, amended: the chat POST calls upstream at most once and never waits; an
\* upstream 429 is relayed to the caller after that one call.
C10_ChatCallsOnce ==
    /\ Len(chatHist) <= 1
    /\ chatWaits = <<>>
    /\ (chatHist # <<>> /\ chatMethod = "POST") => chatPc = "done"
    /\ (chatHist # <<>> /\ SaysRetry429(chatHist[1])) => chatResp.status = 429

C10_Witness ==
    /\ chatPc = "done" /\ chatMethod = "POST"
    /\ Len(chatHist) = 1
    /\ SaysRetry429(chatHist[1])
    /\ chatResp.status = 429

\* C11, as claimed: the existence check is answered by key presence alone, so
\* once initialization is over apiKeyExists is true when the key is configured
\* (input enabled) and false when it is absent.
C11_CheckFollowsKey ==
    clPc \in {"idle", "fetch", "wait"}
      => /\ ~KeyAbsent => apiKeyExists
         /\ KeyAbsent => ~apiKeyExists

\* An upstream response whose body does not decode.
Undecodable(up) == up.kind = "resp" /\ ~up.decodes

\* C12: image route: a response whose body does not decode is followed, on
\* attempts 1 to 4, by the current backoff wait and another upstream call; on
\* attempt 5 the handler answers with the synthesized body {error: {message}}
\* carrying the decode failure, having made exactly 5 calls.
C12_DecodeFailureRetried ==
    \A k \in 1..Len(imgHist) :
        Undecodable(imgHist[k])
          => IF k < 5
               THEN \/ Len(imgHist) = k /\ imgPc = "wait" /\ Len(imgWaits) = k - 1
                    \/ Len(imgHist) = k /\ imgPc = "fetch" /\ Len(imgWaits) = k
                    \/ Len(imgHist) > k /\ Len(imgWaits) >= k
                         /\ imgWaits[k] = 1000 * Pow2(k - 1)
               ELSE /\ k = 5 /\ Len(imgHist) = 5
                    /\ imgPc = "done"
                    /\ imgResp.body.error = [shape |-> "obj", words |-> MsgParse]
                    /\ imgResp.body.message = <<>> /\ ~imgResp.body.inline

C12_Witness ==
    /\ imgPc = "done"
    /\ Len(imgHist) = 5
    /\ Undecodable(imgHist[5]) /\ Undecodable(imgHist[2])
    /\ imgHist[1].decodes
    /\ imgWaits = <<1000, 2000, 4000, 8000>>
    /\ imgResp.body.error.words = MsgParse

\* The uris of a source list are pairwise distinct.
DistinctUris(l) == \A i, j \in 1..Len(l) : i # j => l[i].uri # l[j].uri

\* C13, as claimed: the sources list stored in every turn of the conversation
\* holds pairwise distinct uris.
C13_StoredSourcesDistinct ==
    \A k \in 1..Len(chatHistory) :
        chatHistory[k].hasSources => DistinctUris(chatHistory[k].sources)

\* C13, amended: the source list rendered for every turn holds pairwise
\* distinct uris, and holds every uri of the stored list, which may repeat one.
C13_RenderedSourcesDistinct ==
    \A k \in 1..Len(chatHistory) :
        /\ DistinctUris(UniqueSources(chatHistory[k]))
        /\ chatHistory[k].hasSources
             => { chatHistory[k].sources[i].uri : i \in 1..Len(chatHistory[k].sources) }
                  = { UniqueSources(chatHistory[k])[i].uri :
                        i \in 1..Len(UniqueSources(chatHistory[k])) }

C13_Witness ==
    \E k \in 1..Len(chatHistory) :
        /\ chatHistory[k].hasSources
        /\ Len(chatHistory[k].sources) = 3
        /\ chatHistory[k].sources[1].uri = chatHistory[k].sources[2].uri
        /\ Len(UniqueSources(chatHistory[k])) = 2

\* C14: no sources list stored in a turn holds an entry with an empty (or
\* missing) uri; of the attributions received, those without web, without
\* web.uri or with an empty web.uri are dropped, titled or not, and the others
\* are kept in order.
C14_NoEmptyUriStored ==
    /\ \A k \in 1..Len(chatHistory) :
          \A i \in 1..Len(chatHistory[k].sources) :
              chatHistory[k].sources[i].uri \notin {"", "undefined"}
    /\ (clPc = "idle" /\ clLast.class = "ok" /\ clLast.body.cand = "text"
           /\ clLast.body.text # <<>> /\ clLast.body.meta = "atts")
         => LET kept  == SelectSeq(clLast.body.atts,
                                   LAMBDA a : a.present /\ a.uri \notin {"", "undefined"})
                saved == chatHistory[Len(chatHistory)].sources
            IN  /\ Len(saved) = Len(kept)
                /\ \A i \in 1..Len(kept) : saved[i].uri = kept[i].uri

C14_Witness ==
    /\ clPc = "idle" /\ clLast.class = "ok"
    /\ \E i \in 1..Len(clLast.body.atts) :
          clLast.body.atts[i].present /\ clLast.body.atts[i].uri = ""
            /\ clLast.body.atts[i].title = "T"
    /\ \E i \in 1..Len(clLast.body.atts) : ~clLast.body.atts[i].present
    /\ Len(chatHistory[Len(chatHistory)].sources) = 3

\* The uris of a source list, in order.
Uris(l) == [i \in 1..Len(l) |-> l[i].uri]

\* The positions of l that hold the first occurrence of their uri.
Firsts(l) == { i \in 1..Len(l) : \A j \in 1..(i - 1) : l[j].uri # l[i].uri }

\* C15: the source list shown for a message is its sources list with, of each
\* uri, the first entry only, in the original order (uris a, b, a, c give
\* a, b, c); deduplicating the shown list again changes nothing.
C15_ShownIsFirstOccurrences ==
    bubblePc = "shown"
      => LET l == bubbleMessage.sources
         IN  /\ Len(bubbleShown) = Cardinality(Firsts(l))
             /\ \A i \in Firsts(l) :
                   bubbleShown[Cardinality({ j \in Firsts(l) : j <= i })] = l[i]
             /\ Uris(l) = <<"a", "b", "a", "c">> => Uris(bubbleShown) = <<"a", "b", "c">>
             /\ UniqueUpTo(bubbleShown, Len(bubbleShown)) = bubbleShown

C15_Witness ==
    /\ bubblePc = "shown"
    /\ Uris(bubbleMessage.sources) = <<"a", "b", "a", "c">>
    /\ bubbleMessage.sources[1].title = "T1" /\ bubbleMessage.sources[3].title = "T2"
    /\ Uris(bubbleShown) = <<"a", "b", "c">>
    /\ bubbleShown[1].title = "T1"

\* C16: sendMessage: when the 5th attempt also fails (429, another non-2xx
\* status, a rejected fetch or a body that does not decode), the send is over
\* with loading false and the fixed "could not connect after multiple
\* retries" turn as the one assistant turn appended after the user's turn.
C16_ExhaustionAppendsErrorTurn ==
    (clSettled = 5 /\ clLast.class \in {"429", "status", "reject", "undecodable"})
      => /\ clPc = "idle"
         /\ ~loading
         /\ clPosts = 5
         /\ Len(chatHistory) = 1 + 2 * sends
         /\ chatHistory[Len(chatHistory)] = Turn("ai", MsgRetriesFailed)
         /\ chatHistory[Len(chatHistory) - 1].role = "user"

C16_Witness ==
    /\ clSettled = 5 /\ clLast.class = "429"
    /\ clPc = "idle" /\ ~loading
    /\ sends = 2
    /\ chatHistory[Len(chatHistory)].text = MsgRetriesFailed

\* s is t or the beginning of t.
IsPrefix(s, t) == Len(s) <= Len(t) /\ SubSeq(t, 1, Len(s)) = s

\* C17: every step of the client (a send, a reply, a fallback or error reply,
\* a step of the background generation) leaves the turns already in the
\* conversation as they are and in place: the conversation only grows at its
\* end.
C17_ConversationAppendOnly == [][IsPrefix(chatHistory, chatHistory')]_vars

C17_Witness ==
    /\ Len(chatHistory) = 5
    /\ chatHistory[1] = Greeting
    /\ chatHistory[2].role = "user"
    /\ chatHistory[3].text = MsgRetriesFailed
    /\ chatHistory[4].role = "user"
    /\ chatHistory[5].hasSources
    /\ backgroundImage # ""

\* C18: while a send is in flight the contents it posts are the conversation
\* as it stood when the send was accepted followed by the new user turn: one
\* entry per turn, in order, each with a single text part holding the turn's
\* text, role "user" for the user's turns and "model" for the assistant's;
\* the last entry is the new user turn.
C18_PayloadIsMappedConversation ==
    clPc \in {"fetch", "wait"}
      => /\ Len(clPayload) = Len(chatHistory)
         /\ \A k \in 1..Len(chatHistory) :
               /\ clPayload[k].parts = <<[text |-> chatHistory[k].text]>>
               /\ chatHistory[k].role = "user" => clPayload[k].role = "user"
               /\ chatHistory[k].role = "ai" => clPayload[k].role = "model"
         /\ chatHistory[Len(chatHistory)].role = "user"
         /\ clPayload[Len(clPayload)].role = "user"
         /\ clPayload[Len(clPayload)].parts[1].text \in UserInputs \ {<<>>}

C18_Witness ==
    /\ clPc = "wait"
    /\ Len(clPayload) = 4
    /\ clPayload[1] = [role |-> "model", parts |-> <<[text |-> <<"Hello", "Skathix!">>]>>]
    /\ clPayload[2].role = "user"
    /\ clPayload[3] = [role |-> "model", parts |-> <<[text |-> MsgRetriesFailed]>>]
    /\ clPayload[4] = [role |-> "user", parts |-> <<[text |-> <<"dragons">>]>>]

\* C19: sendMessage, a 2xx response whose body decodes: the send is over with
\* one assistant turn appended, whatever fields the body lacks; when the first
\* candidate's first text part is missing or empty that turn carries the
\* body's error.message, or the generic "empty or malformed response" text
\* when there is none, and has no sources.
C19_MalformedBodyFallsBack ==
    clLast.class = "ok"
      => /\ clPc = "idle"
         /\ ~loading
         /\ Len(chatHistory) = 1 + 2 * sends
         /\ chatHistory[Len(chatHistory)].role = "ai"
         /\ chatHistory[Len(chatHistory) - 1].role = "user"
         /\ (clLast.body.cand # "text" \/ clLast.body.text = <<>>)
              => /\ chatHistory[Len(chatHistory)].text =
                      <<"An", "unexpected", "error", "occurred:">>
                        \o (IF clLast.body.error.shape = "obj"
                                 /\ clLast.body.error.words # <<>>
                              THEN clLast.body.error.words
                              ELSE <<"Received", "an", "empty", "or", "malformed",
                                     "response.">>)
                 /\ ~chatHistory[Len(chatHistory)].hasSources

C19_Witness ==
    /\ clLast.class = "ok"
    /\ clLast.body.cand = "noContent"
    /\ Len(chatHistory) = 5
    /\ chatHistory[3].text = MsgUnexpected \o MsgOther
    /\ chatHistory[5].text = MsgUnexpected \o MsgMalformed

\* A step of the background generation other than its start by a send.
BgStep ==
    /\ sends' = sends
    /\ <<bgVars, backgroundLoading, backgroundImage>>'
         # <<bgVars, backgroundLoading, backgroundImage>>

\* C20: no step of the background generation (a success, a 429, malformed
\* data, a thrown error, the exhaustion of its retries), wherever the text
\* call is, changes the conversation, the loading flag or the text call's own
\* state; and the turn a finished send has appended is the one made from what
\* the text call received, whatever the background generation came to.
C20_BackgroundIsFireAndForget ==
    [][/\ BgStep => UNCHANGED <<chatHistory, loading, apiKeyExists, sendVars>>
       /\ (clPc' = "idle" /\ sends' > 0)
            => chatHistory'[Len(chatHistory')] =
                 IF clLast'.class = "ok"
                   THEN BuildTurn(clLast'.body)
                   ELSE Turn("ai", MsgRetriesFailed)]_vars

C20_Witness ==
    /\ clPc = "wait" /\ loading
    /\ sends = 1
    /\ Len(chatHistory[2].text) > 3
    /\ bgPc = "idle" /\ ~backgroundLoading
    /\ backgroundImage = ""

\* C21: while loading is true no send is accepted: no user turn is appended
\* and the only request issued is the next attempt of the send in flight,
\* after its wait; a send is in flight exactly while loading is true after
\* initialization, so two text calls never overlap.
C21_OneSendInFlight ==
    [][/\ loading
            => /\ sends' = sends
               /\ Len(chatHistory') > Len(chatHistory)
                    => chatHistory'[Len(chatHistory')].role = "ai" /\ ~loading'
               /\ clPosts' # clPosts => clPc = "wait" /\ clPosts' = clPosts + 1
               /\ clPayload' = clPayload
       /\ sends' # sends => clPc = "idle" /\ sends' = sends + 1 /\ clPosts' = 1
       /\ clPc' \in {"fetch", "wait"} => loading'
       /\ clPc' = "idle" => ~loading']_vars

C21_Witness ==
    /\ loading /\ clPc = "fetch"
    /\ sends = 2
    /\ clPosts = 3
    /\ Len(chatHistory) = 4

\* C22: when every fetch settles and every timer fires, a send in flight
\* comes to its end: loading is false again, the send has made at most 5
\* POSTs, and the conversation has gained the user's turn and one assistant
\* turn for it.
C22_SendCompletes ==
    (clPc \in {"fetch", "wait"})
      ~> (/\ clPc = "idle"
          /\ ~loading
          /\ clPosts <= 5
          /\ sends > 0
          /\ Len(chatHistory) = 1 + 2 * sends
          /\ chatHistory[Len(chatHistory)].role = "ai"
          /\ chatHistory[Len(chatHistory) - 1].role = "user")

C22_Witness ==
    /\ clPc = "idle" /\ ~loading
    /\ sends = 1
    /\ clPosts = 5
    /\ Len(chatHistory) = 3
    /\ chatHistory[2].role = "user" /\ chatHistory[3].role = "ai"

\* C23: a step that accepts a send or issues a POST is taken only after
\* initialization, with apiKeyExists true; while initialization runs or
\* apiKeyExists is false no POST has been issued; and apiKeyExists, once
\* false, stays false.
C23_NoPostWithoutKeyCheck ==
    [][/\ (sends' # sends \/ clPosts' # clPosts)
            => clPc \in {"idle", "wait"} /\ apiKeyExists /\ apiKeyExists'
       /\ (clPc' = "init" \/ ~apiKeyExists')
            => sends' = 0 /\ clPosts' = 0 /\ clPc' \in {"init", "idle"}
       /\ ~apiKeyExists => ~apiKeyExists']_vars

C23_Witness ==
    /\ clPc = "idle" /\ ~loading
    /\ ~apiKeyExists
    /\ userId = "anonymous-user"
    /\ sends = 0 /\ clPosts = 0
    /\ chatHistory = <<Greeting>>

\* C24: the conversation starts with the greeting and its turns alternate
\* assistant, user, assistant, ...; while no send is in flight its length is
\* odd and it ends with an assistant turn; while a send is in flight it ends
\* with the user turn of that send.
C24_TurnsAlternate ==
    /\ chatHistory[1].role = "ai"
    /\ chatHistory[1].text = <<"Hello", "Skathix!">>
    /\ \A k \in 1..Len(chatHistory) :
          chatHistory[k].role = IF k % 2 = 1 THEN "ai" ELSE "user"
    /\ clPc \in {"init", "idle"}
         => Len(chatHistory) % 2 = 1 /\ chatHistory[Len(chatHistory)].role = "ai"
    /\ clPc \in {"fetch", "wait"}
         => /\ Len(chatHistory) % 2 = 0
            /\ chatHistory[Len(chatHistory)].role = "user"
            /\ chatHistory[Len(chatHistory)].text
                 = clPayload[Len(clPayload)].parts[1].text

C24_Witness ==
    /\ clPc = "fetch"
    /\ Len(chatHistory) = 4
    /\ chatHistory[3].text = MsgRetriesFailed
    /\ chatHistory[4].text = <<"describe", "a", "fire", "dragon">>

\* The upstream responses received by the image request: its attempts whose
\* fetch did not reject.
ImgResponses == SelectSeq(imgHist, LAMBDA up : up.kind = "resp")

\* The body the handler makes up when the last body does not decode.
ParseFailureBody ==
    [error |-> [shape |-> "obj",
                words |-> <<"Failed", "to", "parse", "response", "from", "API">>],
     message |-> <<>>, inline |-> FALSE]

\* C25, as claimed: whenever the loop of the image route ran, the answer has
\* the status of the last upstream response received, with that response's
\* decoded body or the synthesized decode-failure body.
C25_StatusOfLastResponse ==
    (imgPc = "done" /\ ImgResponses # <<>>)
      => LET last == ImgResponses[Len(ImgResponses)]
         IN  /\ imgResp.status = last.status
             /\ imgResp.body = IF last.decodes THEN last.body ELSE ParseFailureBody

\* C25, amended: when the attempt that ended the loop received a response,
\* the answer has that response's status with its decoded body, or with the
\* synthesized decode-failure body when it did not decode (then it is the 5th
\* attempt); a body decoded on an earlier attempt is not part of the answer.
\* When that attempt's fetch rejected the answer is 500 with the failure
\* message instead.
C25_StatusAndBodyOfLastAttempt ==
    (imgPc = "done" /\ imgHist # <<>>)
      => LET last == imgHist[Len(imgHist)]
         IN  IF last.kind = "reject"
               THEN /\ imgResp.status = 500
                    /\ imgResp.body.error = [shape |-> "str", words |-> <<"caught">>]
               ELSE /\ imgResp.status = last.status
                    /\ last.decodes => imgResp.body = last.body
                    /\ ~last.decodes
                         => imgResp.body = ParseFailureBody /\ Len(imgHist) = 5

C25_Witness ==
    /\ imgPc = "done"
    /\ Len(imgHist) = 5
    /\ imgHist[4].decodes /\ imgHist[4].status = 429
    /\ ~imgHist[5].decodes /\ imgHist[5].status = 500
    /\ imgResp.status = 500
    /\ imgResp.body = ParseFailureBody

\* C26: image route: an attempt whose fetch rejects is the last one: the
\* handler neither waits nor calls upstream again, and answers 500 with the
\* failure message; the calls made are as many as the failing attempt's
\* index.
C26_RejectedFetchIsNotRetried ==
    \A k \in 1..Len(imgHist) :
        imgHist[k].kind = "reject"
          => /\ Len(imgHist) = k
             /\ imgPc = "done"
             /\ Len(imgWaits) = k - 1
             /\ imgResp.status = 500
             /\ imgResp.body.error = [shape |-> "str", words |-> <<"caught">>]

C26_Witness ==
    /\ imgPc = "done"
    /\ Len(imgHist) = 3
    /\ imgHist[3].kind = "reject"
    /\ imgHist[2].status = 429
    /\ imgWaits = <<1000, 2000>>
    /\ imgResp.status = 500

\* C27: the upstream text-generation calls made for one send through the chat
\* route are at most 5; when every attempt of the send was answered 429 they
\* are as many as the attempts, and 5 once the send is over.
C27_UpstreamCallsAtMostFive ==
    /\ clUpCalls <= 5
    /\ clUpCalls <= clPosts
    /\ (clSettled > 0 /\ clAll429 /\ clLast.class = "429")
         => /\ clUpCalls = clSettled
            /\ clPc = "idle" => clUpCalls = 5

C27_Witness ==
    /\ clPc = "idle"
    /\ clAll429
    /\ clLast.class = "429"
    /\ clUpCalls = 5
    /\ clPosts = 5
    /\ chatHistory[Len(chatHistory)] = Turn("ai", MsgRetriesFailed)

\* C28: a background generation that has started returns, every fetch
\* settling and every timer firing; the step on which it returns follows at
\* most 3 requests and leaves backgroundLoading false, whether an image was
\* set or not.
C28_BackgroundTerminates ==
    /\ [][(bgPc # "idle" /\ bgPc' = "idle")
            => (bgPosts <= 3 /\ ~backgroundLoading')]_vars
    /\ (bgPc # "idle") ~> (bgPc = "idle" /\ ~backgroundLoading)

C28_Witness ==
    /\ sends = 1
    /\ LongQuery(chatHistory[2].text)
    /\ bgPc = "idle"
    /\ ~backgroundLoading
    /\ backgroundImage = ""
    /\ clPc = "fetch"

\* C29: at most one background generation is in flight: one is in flight
\* exactly while backgroundLoading is true, and an accepted send starts one
\* only when its query has more than 3 words and backgroundLoading is false;
\* otherwise it leaves the generation in flight, if any, as it is.
C29_OneBackgroundInFlight ==
    [][/\ (bgPc' # "idle") <=> backgroundLoading'
       /\ sends' = sends + 1
            => IF LongQuery(chatHistory'[Len(chatHistory')].text)
                  /\ ~backgroundLoading /\ bgPc = "idle"
                 THEN bgPc' = "fetch" /\ bgPosts' = 1 /\ backgroundLoading'
                 ELSE UNCHANGED <<bgVars, backgroundLoading>>]_vars

C29_Witness ==
    /\ sends = 2
    /\ LongQuery(chatHistory[2].text)
    /\ LongQuery(chatHistory[4].text)
    /\ Len(chatHistory) = 4
    /\ clPc = "fetch" /\ clSettled = 0
    /\ backgroundLoading
    /\ bgPc = "wait" /\ bgPosts = 2

====
